---- MODULE Spec2Model ----
(***************************************************************************)
(* Shader-program build pipeline of the glesdemos examples.                *)
(*                                                                         *)
(* Every example is a single-threaded main() that creates a context,       *)
(* builds one or two programs (compile the stages, link), and then uses    *)
(* the programs in a fixed sequence of GL calls.  The model runs one       *)
(* example per behaviour, one GL call (or one check of its result) per     *)
(* step.  The driver is the environment: its compile and link answers are  *)
(* drawn in Init, its diagnostic text when it reports a failure.           *)
(***************************************************************************)
EXTENDS Integers, Sequences, FiniteSets, TLC

(***************************************************************************)
(* Bounds.                                                                 *)
(***************************************************************************)
\* frames of a render loop that are explored before the window must close
MaxFrames == 2
\* longest diagnostic text the driver produces
MaxLogLen == 2
\* frames of the bouncing triangle that are explored
MaxBounceFrames == 5200
\* key events delivered to the wireframe example
MaxKeyEvents == 4
\* iterations of the render loop of the wireframe example
MaxWireFrames == 2
\* largest width and height of the image the offscreen example reads back
MaxWidth == 2
MaxHeight == 2

(***************************************************************************)
(* The examples, as data.                                                  *)
(***************************************************************************)
Op(o, p) == [op |-> o, prog |-> p]

\* the name glGenFramebuffers gives to fbo / fboDepth; 0 is the window's
\* framebuffer
OffscreenFbo == 1

\* a call on framebuffer f
FbOp(o, f) == [op |-> o, prog |-> 0, fb |-> f]

\* a build of a vertex+fragment program
VFBuild(fn, del, tag) ==
    [stages |-> <<"Vertex", "Fragment">>, viaFunction |-> fn,
     deletes |-> del, progTag |-> tag]

\* CBuild with a vertex stage compiled and attached next to the compute
\* stage
CBuild_WithVertex(del, tag) ==
    [stages |-> <<"Vertex", "Compute">>, viaFunction |-> FALSE,
     deletes |-> del, progTag |-> tag]

\* a build of a compute-only program
CBuild(del, tag) ==
    [stages |-> <<"Compute">>, viaFunction |-> FALSE,
     deletes |-> del, progTag |-> tag]

Glfw == {-1, -2}
Egl == {-1, -2, -3}

depth_cube ==
    [builds   |-> <<VFBuild(TRUE, TRUE, "Program error"),
                    VFBuild(TRUE, TRUE, "Program error")>>,
     ctxFail  |-> Glfw,
     setup    |-> <<Op("getloc", 1), Op("getloc", 2), Op("getloc", 2),
                    FbOp("bindfb", OffscreenFbo), Op("fbocheck", 0),
                    FbOp("bindfb", 0),
                    Op("getloc", 1), Op("getloc", 1), Op("getloc", 1),
                    Op("getloc", 1),
                    Op("use", 1), Op("uniform", 0), Op("use", 0),
                    Op("use", 2), Op("getloc", 2), Op("uniform", 0),
                    Op("use", 0)>>,
     loops    |-> TRUE,
     frame    |-> <<FbOp("bindfb", OffscreenFbo),
                    Op("use", 1), Op("uniform", 0), Op("uniform", 0),
                    Op("uniform", 0), Op("draw", 0), Op("uniform", 0),
                    Op("draw", 0),
                    FbOp("binddraw", 0), Op("blit", 0),
                    Op("use", 2), Op("draw", 0),
                    Op("swap", 0)>>,
     teardown |-> << >>]

gles_cube ==
    [builds   |-> <<VFBuild(FALSE, TRUE, "Program error")>>,
     ctxFail  |-> Glfw,
     setup    |-> <<Op("getloc", 1), Op("getloc", 1), Op("getloc", 1),
                    Op("use", 1), Op("uniform", 0), Op("use", 0),
                    Op("getloc", 1), Op("getloc", 1)>>,
     loops    |-> TRUE,
     frame    |-> <<Op("use", 1), Op("uniform", 0), Op("uniform", 0),
                    Op("uniform", 0), Op("draw", 0), Op("uniform", 0),
                    Op("draw", 0), Op("swap", 0)>>,
     teardown |-> << >>]

\* gles_compute_pure releasing its program before it is used
gles_compute_pure_ReleaseFirst ==
    [builds   |-> <<CBuild(TRUE, "Program error")>>,
     ctxFail  |-> Egl,
     setup    |-> <<Op("delprog", 1), Op("use", 1), Op("dispatch", 0),
                    Op("use", 0)>>,
     loops    |-> FALSE,
     frame    |-> << >>,
     teardown |-> << >>]

gles_compute_pure ==
    [builds   |-> <<CBuild(TRUE, "Program error")>>,
     ctxFail  |-> Egl,
     setup    |-> <<Op("use", 1), Op("dispatch", 0), Op("use", 0)>>,
     loops    |-> FALSE,
     frame    |-> << >>,
     teardown |-> <<Op("delprog", 1)>>]

gles_compute ==
    [builds   |-> <<VFBuild(FALSE, TRUE, "Program error"),
                    CBuild(FALSE, "Compute Program error")>>,
     ctxFail  |-> Glfw,
     setup    |-> <<Op("getloc", 1), Op("getloc", 1), Op("getloc", 1)>>,
     loops    |-> TRUE,
     frame    |-> <<Op("use", 2), Op("dispatch", 0), Op("use", 0),
                    Op("use", 1), Op("uniform", 0), Op("uniform", 0),
                    Op("draw", 0), Op("swap", 0)>>,
     teardown |-> << >>]

gles_compute_simple ==
    [builds   |-> <<VFBuild(FALSE, TRUE, "Program error"),
                    CBuild(FALSE, "Compute Program error")>>,
     ctxFail  |-> Glfw,
     setup    |-> <<Op("getloc", 1), Op("getloc", 1), Op("getloc", 1),
                    Op("use", 2), Op("dispatch", 0), Op("use", 0)>>,
     loops    |-> TRUE,
     frame    |-> <<Op("use", 1), Op("uniform", 0), Op("uniform", 0),
                    Op("draw", 0), Op("swap", 0)>>,
     teardown |-> << >>]

gles_offscreen ==
    [builds   |-> <<VFBuild(FALSE, TRUE, "Program error")>>,
     ctxFail  |-> Egl,
     setup    |-> <<Op("use", 1), Op("draw", 0)>>,
     loops    |-> FALSE,
     frame    |-> << >>,
     teardown |-> <<Op("delprog", 1)>>]

gles_wireframe ==
    [builds   |-> <<VFBuild(FALSE, TRUE, "Program error")>>,
     ctxFail  |-> Glfw,
     setup    |-> <<Op("getloc", 1)>>,
     loops    |-> TRUE,
     frame    |-> <<Op("use", 1), Op("uniform", 0), Op("draw", 0),
                    Op("swap", 0)>>,
     teardown |-> << >>]

gles_triangle_rotate ==
    [builds   |-> <<VFBuild(FALSE, TRUE, "Program error")>>,
     ctxFail  |-> Glfw,
     setup    |-> <<Op("getloc", 1), Op("getloc", 1), Op("getloc", 1),
                    Op("use", 1), Op("uniform", 0), Op("use", 0)>>,
     loops    |-> TRUE,
     frame    |-> <<Op("use", 1), Op("uniform", 0), Op("draw", 0),
                    Op("swap", 0)>>,
     teardown |-> << >>]

gles_triangle_fbo_blit ==
    [builds   |-> <<VFBuild(FALSE, TRUE, "Program error")>>,
     ctxFail  |-> Glfw,
     setup    |-> <<Op("getloc", 1), Op("getloc", 1), Op("getloc", 1),
                    Op("getloc", 1), Op("getloc", 1),
                    FbOp("bindfb", OffscreenFbo), Op("fbocheck", 0),
                    FbOp("bindfb", 0)>>,
     loops    |-> TRUE,
     frame    |-> <<FbOp("bindfb", OffscreenFbo),
                    Op("use", 1), Op("uniform", 0), Op("uniform", 0),
                    Op("draw", 0), Op("use", 0),
                    FbOp("binddraw", 0), Op("blit", 0),
                    Op("swap", 0)>>,
     teardown |-> << >>]

gles_triangle_texture ==
    [builds   |-> <<VFBuild(FALSE, TRUE, "Program error")>>,
     ctxFail  |-> Glfw,
     setup    |-> <<Op("getloc", 1), Op("getloc", 1), Op("getloc", 1),
                    Op("getloc", 1), Op("use", 1), Op("uniform", 0),
                    Op("use", 0)>>,
     loops    |-> TRUE,
     frame    |-> <<Op("use", 1), Op("uniform", 0), Op("draw", 0),
                    Op("swap", 0)>>,
     teardown |-> << >>]

Examples ==
    [depth_cube             |-> depth_cube,
     gles_cube              |-> gles_cube,
     gles_compute_pure      |-> gles_compute_pure,
     gles_compute           |-> gles_compute,
     gles_compute_simple    |-> gles_compute_simple,
     gles_offscreen         |-> gles_offscreen,
     gles_wireframe         |-> gles_wireframe,
     gles_triangle_rotate   |-> gles_triangle_rotate,
     gles_triangle_fbo_blit |-> gles_triangle_fbo_blit,
     gles_triangle_texture  |-> gles_triangle_texture]

ExampleNames == DOMAIN Examples

\* size of the char info[] buffers handed to glGet*InfoLog
InfoSize == 512

\* diagnostic texts the driver may attach to a failed object: none, a short
\* one, or one about as long as the info[] buffer; a text is modelled by
\* the positions of its characters
DriverLogs ==
    {[i \in 1..n |-> i] :
        n \in (0..MaxLogLen) \cup ((InfoSize - 1)..(InfoSize + 1))}

\* exit status of every compile and link failure
BuildFailStatus == -3


(***************************************************************************)
(* State.                                                                  *)
(***************************************************************************)
VARIABLES
    example,        \* the example this process runs
    context,        \* the graphics context: none, created, current,
                    \* destroyed
    answers,        \* the driver's compile/link verdict for every source
    phase,          \* position of main(): context, makecurrent, build, setup, loop,
                    \* frame, teardown, exited
    callStack,      \* active function frames
    bi,             \* index of the build in progress
    bpc,            \* position inside the build
    si,             \* stage the build is working on
    ip,             \* position inside the setup/frame/teardown calls
    frames,         \* completed iterations of the render loop
    nextName,       \* next unused object name of the driver
    shaderObjs,     \* driver: shader objects by name
    programObjs,    \* driver: program objects by name
    currentProgram, \* driver: program bound by glUseProgram
    stageVar,       \* vertex_shader / fragment_shader / compute_shader
    progVar,        \* shader_program / compute_program of each build
    mainVar,        \* cube_program / texture_program: values returned
                    \* by createShaderProgram
    completed,      \* number of builds that ran to their end
    diag,           \* the error message printed, if any
    exitCode,       \* process exit status, once phase = "exited"
    exitBy,         \* how the process ended: return from main, or exit()
    uses,           \* history: GL calls that used a program
    cpc,            \* pure compute example: position of main after the build
    calcBuffer,     \* pure compute example: the ints of the buffer
    mapping,        \* pure compute example: how the buffer is mapped
    invocation,     \* pure compute example: progress of each work group
    printed,        \* pure compute example: the ints printed at read-back
    bufferCalls,    \* pure compute example: history of the mapping,
                    \* dispatch and release calls
    verticesVbo,    \* bouncing triangle: the vec4s of vertices_vbo
    bframes,        \* bouncing triangle: iterations of the render loop
    wireframeToggle, \* wireframe example: static int wireframeToggle
    wpc,            \* wireframe example: position inside the render loop
    uniformValue,   \* wireframe example: the shader's uniform
                    \* wireframeToggle
    events,         \* wireframe example: history of the key events
                    \* delivered to key_callback
    wframes,        \* wireframe example: iterations of the render loop
    readFramebuffer, \* driver: the framebuffer bound to
                    \* GL_READ_FRAMEBUFFER
    drawFramebuffer, \* driver: the framebuffer bound to
                    \* GL_DRAW_FRAMEBUFFER
    fboStatus,      \* what glCheckFramebufferStatus reported: none,
                    \* complete, incomplete
    frameCalls,     \* history: the draw, blit and swap calls since the
                    \* last start of a frame, with the bindings they found
    renderImageWidth,  \* offscreen example: int renderImageWidth
    renderImageHeight, \* offscreen example: int renderImageHeight
    pixels,         \* offscreen example: std::vector<uint8_t> pixels
    file,           \* offscreen example: the bytes written to the file
                    \* after its header
    row,            \* offscreen example: uint32_t *row, as the number of
                    \* uint32_t it is beyond pixels.data()
    px,             \* offscreen example: loop variable x
    py,             \* offscreen example: loop variable y
    dpc             \* offscreen example: position of the read-back

vars == <<example, answers, context, phase, callStack, bi, bpc, si, ip, frames,
          nextName, shaderObjs, programObjs, currentProgram, stageVar,
          progVar, mainVar, completed, diag, exitCode, exitBy, uses,
          cpc, calcBuffer, mapping, invocation, printed, bufferCalls,
          verticesVbo, bframes, wireframeToggle, wpc, uniformValue, events, wframes,
          readFramebuffer, drawFramebuffer, fboStatus, frameCalls,
          renderImageWidth, renderImageHeight, pixels, file, row, px, py,
          dpc>>

\* the state of the computations of single examples; the build pipeline
\* does not touch it
wireVars == <<wireframeToggle, wpc, uniformValue, events, wframes>>

\* the framebuffer bindings and what was rendered with them
fbVars == <<readFramebuffer, drawFramebuffer, fboStatus, frameCalls>>

dumpVars == <<renderImageWidth, renderImageHeight, pixels, file, row, px,
              py, dpc>>

demoVars == <<cpc, calcBuffer, mapping, invocation, printed, bufferCalls,
              verticesVbo, bframes, wireVars, dumpVars>>

\* glDispatchCompute(10, 1, 1)
NumGroups == 10
\* std140: the stride of an ivec2 array element is 16 bytes, 4 ints
ArrayStride == 4
\* int itemCount = 10 * (2 + 2)
ItemCount == NumGroups * (2 + 2)

Groups == 0..(NumGroups - 1)
Items == 0..(ItemCount - 1)

Vertices == 0..2
Axes == {"x", "y"}

\* const float vertices[]: x in steps of 0.005, y in steps of 0.01; z/w of
\* vertex 0 is the direction, z/w of vertex 1 the speed, in steps per frame
InitialVertices ==
    [v \in Vertices |->
        CASE v = 0 -> [x |-> -100, y |-> 50, z |-> 1, w |-> 1]
          [] v = 1 -> [x |-> 100, y |-> 50, z |-> 1, w |-> 1]
          [] v = 2 -> [x |-> 0, y |-> -50, z |-> 0, w |-> 0]]

\* the steps in the distance 1.0: 1 / 0.005 and 1 / 0.01
Boundary == [x |-> 200, y |-> 100]
\* the steps in the upper clamp 0.3 of the speed
SpeedMax == [x |-> 60, y |-> 30]

\* the wireframe example before its render loop: static int
\* wireframeToggle = 0, and the uniform of a linked program is 0
WireIdle ==
    /\ wireframeToggle = 0
    /\ wpc = "poll"
    /\ uniformValue = 0
    /\ events = << >>
    /\ wframes = 0

\* the offscreen example before its read-back: int renderImageWidth = 256;
\* int renderImageHeight = 256
DumpIdle ==
    /\ renderImageWidth = 256
    /\ renderImageHeight = 256
    /\ pixels = << >>
    /\ file = << >>
    /\ row = 0
    /\ px = 0
    /\ py = 0
    /\ dpc = "start"

\* no example-specific computation has started
DemoIdle ==
    /\ WireIdle
    /\ DumpIdle
    /\ cpc = "start"
    /\ calcBuffer = [i \in Items |-> 0]
    /\ mapping = "none"
    /\ invocation = [g \in Groups |-> "none"]
    /\ printed = [i \in Items |-> 0]
    /\ bufferCalls = << >>
    /\ verticesVbo = InitialVertices
    /\ bframes = 0

Ex == Examples[example]
NumBuilds == Len(Ex.builds)
Build == Ex.builds[bi]
NumStages == Len(Build.stages)

NoDiag == [tag |-> "none", text |-> << >>]

Min(a, b) == IF a < b THEN a ELSE b

\* GetInfoLog filling all of info[] and leaving no room for the terminator
GetInfoLog_NoTerminator(log, bufSize) ==
    SubSeq(log, 1, Min(Len(log), bufSize))

\* glGetShaderInfoLog / glGetProgramInfoLog into char info[bufSize]
GetInfoLog(log, bufSize) == SubSeq(log, 1, Min(Len(log), bufSize - 1))

\* the verdicts a driver can hold for the sources of example e
AnswerSets(e) ==
    LET bs == Examples[e].builds
        Verdicts(b) == [compile : [1..Len(bs[b].stages) -> BOOLEAN],
                        link : BOOLEAN]
    IN  {f \in [1..Len(bs) -> UNION {Verdicts(b) : b \in 1..Len(bs)}] :
            \A b \in 1..Len(bs) : f[b] \in Verdicts(b)}

PipelineInit ==
    /\ example \in ExampleNames
    /\ answers \in AnswerSets(example)
    /\ context = "none"
    /\ phase = "context"
    /\ callStack = <<"main">>
    /\ bi = 1
    /\ bpc = "enter"
    /\ si = 1
    /\ ip = 1
    /\ frames = 0
    /\ nextName = 1
    /\ shaderObjs = << >>
    /\ programObjs = << >>
    /\ currentProgram = 0
    /\ stageVar = [b \in 1..NumBuilds |-> << >>]
    /\ progVar = [b \in 1..NumBuilds |-> 0]
    /\ mainVar = [b \in 1..NumBuilds |-> 0]
    /\ completed = 0
    /\ diag = NoDiag
    /\ exitCode = 0
    /\ exitBy = "none"
    /\ uses = {}
    /\ readFramebuffer = 0
    /\ drawFramebuffer = 0
    /\ fboStatus = "none"
    /\ frameCalls = << >>

Init == PipelineInit /\ DemoIdle

driverVars == <<nextName, shaderObjs, programObjs, currentProgram>>
localVars == <<stageVar, progVar, mainVar>>
exitVars == <<diag, exitCode, exitBy>>

\* return <code> from main
ReturnFromMain(code, msg) ==
    /\ phase' = "exited"
    /\ callStack' = << >>
    /\ exitCode' = code
    /\ exitBy' = "return"
    /\ diag' = msg

\* exit(<code>) from wherever the process is
ExitProcess(code, msg) ==
    /\ phase' = "exited"
    /\ callStack' = callStack
    /\ exitCode' = code
    /\ exitBy' = "exit"
    /\ diag' = msg

\* FailBuild with every build failing by a return from main
FailBuild_AlwaysReturn(msg) == ReturnFromMain(BuildFailStatus, msg)

\* a failed build ends the process: createShaderProgram calls exit(-3),
\* the builds written inside main return -3
FailBuild(msg) ==
    IF Build.viaFunction
    THEN ExitProcess(BuildFailStatus, msg)
    ELSE ReturnFromMain(BuildFailStatus, msg)

(***************************************************************************)
(* main(): context creation.                                               *)
(***************************************************************************)
\* ContextSetup going on to the build when the creation has failed
ContextSetup_IgnoreFailure ==
    /\ phase = "context"
    /\ phase' = "makecurrent"
    /\ \/ context' = "created"
       \/ context' = context
    /\ UNCHANGED <<callStack, exitVars>>
    /\ UNCHANGED <<example, answers, demoVars, fbVars, bi, bpc, si, ip, frames, driverVars,
                   localVars, completed, uses>>

\* glfwInit and glfwCreateWindow, or eglChooseConfig, eglCreateContext and
\* the surface: every failure returns from main
ContextSetup ==
    /\ phase = "context"
    /\ \/ /\ phase' = "makecurrent"
          /\ context' = "created"
          /\ UNCHANGED <<callStack, exitVars>>
       \/ /\ \E code \in Ex.ctxFail : ReturnFromMain(code, NoDiag)
          /\ context' = context
    /\ UNCHANGED <<example, answers, demoVars, fbVars, bi, bpc, si, ip, frames, driverVars,
                   localVars, completed, uses>>

\* glfwMakeContextCurrent(window) / eglMakeCurrent(..., context)
MakeContextCurrent ==
    /\ phase = "makecurrent"
    /\ context' = IF context = "created" THEN "current" ELSE context
    /\ phase' = "build"
    /\ UNCHANGED <<example, answers, demoVars, fbVars, callStack, bi, bpc, si, ip, frames,
                   driverVars, localVars, completed, exitVars, uses>>


(***************************************************************************)
(* The build: createShaderProgram, or the same steps written in main.      *)
(***************************************************************************)
AddObj(objs, name, rec) ==
    [h \in DOMAIN objs \cup {name} |-> IF h = name THEN rec ELSE objs[h]]

\* ShaderTag printing the vertex message for a fragment stage as well
ShaderTag_FragmentAsVertex(kind) ==
    CASE kind = "Vertex"   -> "Vertex shader error"
      [] kind = "Fragment" -> "Vertex shader error"
      [] kind = "Compute"  -> "Compute shader error"

\* the message printed for a stage that failed to compile
ShaderTag(kind) ==
    CASE kind = "Vertex"   -> "Vertex shader error"
      [] kind = "Fragment" -> "Fragment shader error"
      [] kind = "Compute"  -> "Compute shader error"

\* the handle held by the variable of the stage being worked on
CurStage == stageVar[bi][si]
CurProg == progVar[bi]

\* the code reaches the build: a call of createShaderProgram pushes a frame
BuildEnter ==
    /\ phase = "build"
    /\ bpc = "enter"
    /\ bpc' = "create"
    /\ si' = 1
    /\ callStack' = IF Build.viaFunction
                    THEN Append(callStack, "createShaderProgram")
                    ELSE callStack
    /\ UNCHANGED <<example, answers, demoVars, fbVars, context, phase, bi, ip, frames, driverVars,
                   localVars, completed, exitVars, uses>>

\* StageCreate handing the sources of the first build to every build
StageCreate_WrongSource ==
    /\ phase = "build"
    /\ bpc = "create"
    /\ shaderObjs' = AddObj(shaderObjs, nextName,
                            [kind |-> Build.stages[si], src |-> <<1, si>>,
                             status |-> "none", infoLog |-> << >>,
                             deleteFlag |-> FALSE, compiles |-> 0])
    /\ stageVar' = [stageVar EXCEPT ![bi] = Append(@, nextName)]
    /\ nextName' = nextName + 1
    /\ bpc' = "compile"
    /\ UNCHANGED <<example, answers, demoVars, fbVars, context, phase, callStack, bi, si, ip, frames,
                   programObjs, currentProgram, progVar, mainVar,
                   completed, exitVars, uses>>

\* glCreateShader(kind); glShaderSource(shader, 1, &src, NULL)
StageCreate ==
    /\ phase = "build"
    /\ bpc = "create"
    /\ shaderObjs' = AddObj(shaderObjs, nextName,
                            [kind |-> Build.stages[si], src |-> <<bi, si>>,
                             status |-> "none", infoLog |-> << >>,
                             deleteFlag |-> FALSE, compiles |-> 0])
    /\ stageVar' = [stageVar EXCEPT ![bi] = Append(@, nextName)]
    /\ nextName' = nextName + 1
    /\ bpc' = "compile"
    /\ UNCHANGED <<example, answers, demoVars, fbVars, context, phase, callStack, bi, si, ip, frames,
                   programObjs, currentProgram, progVar, mainVar,
                   completed, exitVars, uses>>

\* glCompileShader(shader): the driver compiles the attached source
StageCompile ==
    /\ phase = "build"
    /\ bpc = "compile"
    /\ LET src == shaderObjs[CurStage].src
           ok  == answers[src[1]].compile[src[2]]
       IN  \E log \in (IF ok THEN {<< >>} ELSE DriverLogs) :
               shaderObjs' = [shaderObjs EXCEPT
                   ![CurStage].status = IF ok THEN "ok" ELSE "fail",
                   ![CurStage].infoLog = log,
                   ![CurStage].compiles = @ + 1]
    /\ bpc' = "check"
    /\ UNCHANGED <<example, answers, demoVars, fbVars, context, phase, callStack, bi, si, ip, frames,
                   nextName, programObjs, currentProgram, localVars,
                   completed, exitVars, uses>>

\* StageCheck with the compile status ignored: the build goes on after a
\* failed stage
StageCheck_NoShortCircuit ==
    /\ phase = "build"
    /\ bpc = "check"
    /\ UNCHANGED <<phase, callStack, exitVars>>
    /\ IF si < NumStages
       THEN bpc' = "create" /\ si' = si + 1
       ELSE bpc' = "progcreate" /\ si' = si
    /\ UNCHANGED <<example, answers, demoVars, fbVars, context, bi, ip, frames, driverVars, localVars,
                   completed, uses>>

\* StageCheck that compiles a failed stage a second time before giving up
StageCheck_RetryOnce ==
    /\ phase = "build"
    /\ bpc = "check"
    /\ IF shaderObjs[CurStage].status # "ok"
       THEN IF shaderObjs[CurStage].compiles < 2
            THEN /\ bpc' = "compile"
                 /\ UNCHANGED <<si, phase, callStack, exitVars>>
            ELSE /\ FailBuild([tag  |-> ShaderTag(Build.stages[si]),
                               text |-> GetInfoLog(
                                   shaderObjs[CurStage].infoLog, InfoSize)])
                 /\ UNCHANGED <<bpc, si>>
       ELSE /\ UNCHANGED <<phase, callStack, exitVars>>
            /\ IF si < NumStages
               THEN bpc' = "create" /\ si' = si + 1
               ELSE bpc' = "progcreate" /\ si' = si
    /\ UNCHANGED <<example, answers, demoVars, fbVars, context, bi, ip, frames, driverVars, localVars,
                   completed, uses>>

\* StageCheck that compiles a failed stage again, as long as it fails
StageCheck_RetryUntilOk ==
    /\ phase = "build"
    /\ bpc = "check"
    /\ IF shaderObjs[CurStage].status # "ok"
       THEN /\ bpc' = "compile"
            /\ UNCHANGED <<si, phase, callStack, exitVars>>
       ELSE /\ UNCHANGED <<phase, callStack, exitVars>>
            /\ IF si < NumStages
               THEN bpc' = "create" /\ si' = si + 1
               ELSE bpc' = "progcreate" /\ si' = si
    /\ UNCHANGED <<example, answers, demoVars, fbVars, context, bi, ip, frames, driverVars,
                   localVars, completed, uses>>

\* glGetShaderiv(shader, GL_COMPILE_STATUS, &success); if (!success) {...}
StageCheck ==
    /\ phase = "build"
    /\ bpc = "check"
    /\ IF shaderObjs[CurStage].status # "ok"
       THEN /\ FailBuild([tag  |-> ShaderTag(Build.stages[si]),
                          text |-> GetInfoLog(shaderObjs[CurStage].infoLog,
                                              InfoSize)])
            /\ UNCHANGED <<bpc, si>>
       ELSE /\ UNCHANGED <<phase, callStack, exitVars>>
            /\ IF si < NumStages
               THEN bpc' = "create" /\ si' = si + 1
               ELSE bpc' = "progcreate" /\ si' = si
    /\ UNCHANGED <<example, answers, demoVars, fbVars, context, bi, ip, frames, driverVars, localVars,
                   completed, uses>>

\* shader_program = glCreateProgram()
ProgramCreate ==
    /\ phase = "build"
    /\ bpc = "progcreate"
    /\ programObjs' = AddObj(programObjs, nextName,
                             [attached |-> << >>, status |-> "none",
                              infoLog |-> << >>, deleteFlag |-> FALSE,
                              links |-> 0])
    /\ progVar' = [progVar EXCEPT ![bi] = nextName]
    /\ nextName' = nextName + 1
    /\ bpc' = "attach"
    /\ si' = 1
    /\ UNCHANGED <<example, answers, demoVars, fbVars, context, phase, callStack, bi, ip, frames,
                   shaderObjs, currentProgram, stageVar, mainVar,
                   completed, exitVars, uses>>

\* ProgramAttach that requests the link after the first stage is attached
ProgramAttach_FirstOnly ==
    /\ phase = "build"
    /\ bpc = "attach"
    /\ programObjs' = [programObjs EXCEPT
                          ![CurProg].attached = Append(@, CurStage)]
    /\ bpc' = "link"
    /\ si' = si
    /\ UNCHANGED <<example, answers, demoVars, fbVars, context, phase, callStack, bi, ip, frames,
                   nextName, shaderObjs, currentProgram, localVars,
                   completed, exitVars, uses>>

\* glAttachShader(shader_program, shader)
ProgramAttach ==
    /\ phase = "build"
    /\ bpc = "attach"
    /\ programObjs' = [programObjs EXCEPT
                          ![CurProg].attached = Append(@, CurStage)]
    /\ IF si < NumStages
       THEN bpc' = bpc /\ si' = si + 1
       ELSE bpc' = "link" /\ si' = si
    /\ UNCHANGED <<example, answers, demoVars, fbVars, context, phase, callStack, bi, ip, frames,
                   nextName, shaderObjs, currentProgram, localVars,
                   completed, exitVars, uses>>

\* glLinkProgram(shader_program): the driver links the attached stages;
\* a program with a stage that is not compiled does not link
ProgramLink ==
    /\ phase = "build"
    /\ bpc = "link"
    /\ LET att == programObjs[CurProg].attached
           ok  == /\ \A i \in 1..Len(att) : shaderObjs[att[i]].status = "ok"
                  /\ answers[shaderObjs[att[1]].src[1]].link
       IN  \E log \in (IF ok THEN {<< >>} ELSE DriverLogs) :
               programObjs' = [programObjs EXCEPT
                   ![CurProg].status = IF ok THEN "ok" ELSE "fail",
                   ![CurProg].infoLog = log,
                   ![CurProg].links = @ + 1]
    /\ bpc' = "linkcheck"
    /\ UNCHANGED <<example, answers, demoVars, fbVars, context, phase, callStack, bi, si, ip, frames,
                   nextName, shaderObjs, currentProgram, localVars,
                   completed, exitVars, uses>>

\* ProgramCheck reporting a failed link with the message of the fragment
\* stage
ProgramCheck_WrongTag ==
    /\ phase = "build"
    /\ bpc = "linkcheck"
    /\ IF programObjs[CurProg].status # "ok"
       THEN /\ FailBuild([tag  |-> ShaderTag("Fragment"),
                          text |-> GetInfoLog(programObjs[CurProg].infoLog,
                                              InfoSize)])
            /\ UNCHANGED <<bpc, si>>
       ELSE /\ UNCHANGED <<phase, callStack, exitVars>>
            /\ bpc' = IF Build.deletes THEN "delete" ELSE "return"
            /\ si' = 1
    /\ UNCHANGED <<example, answers, demoVars, fbVars, context, bi, ip, frames, driverVars, localVars,
                   completed, uses>>

\* ProgramCheck with the link status ignored
ProgramCheck_IgnoreStatus ==
    /\ phase = "build"
    /\ bpc = "linkcheck"
    /\ UNCHANGED <<phase, callStack, exitVars>>
    /\ bpc' = IF Build.deletes THEN "delete" ELSE "return"
    /\ si' = 1
    /\ UNCHANGED <<example, answers, demoVars, fbVars, context, bi, ip, frames, driverVars, localVars,
                   completed, uses>>

\* ProgramCheck that releases the stages before it reports a failed link
ProgramCheck_ReleaseOnFail ==
    /\ phase = "build"
    /\ bpc = "linkcheck"
    /\ IF programObjs[CurProg].status # "ok"
       THEN /\ FailBuild([tag  |-> Build.progTag,
                          text |-> GetInfoLog(programObjs[CurProg].infoLog,
                                              InfoSize)])
            /\ shaderObjs' = [h \in DOMAIN shaderObjs |->
                                 IF shaderObjs[h].src[1] = bi
                                 THEN [shaderObjs[h] EXCEPT
                                          !.deleteFlag = TRUE]
                                 ELSE shaderObjs[h]]
            /\ UNCHANGED <<bpc, si>>
       ELSE /\ UNCHANGED <<phase, callStack, exitVars, shaderObjs>>
            /\ bpc' = IF Build.deletes THEN "delete" ELSE "return"
            /\ si' = 1
    /\ UNCHANGED <<example, answers, demoVars, fbVars, context, bi, ip, frames, nextName, programObjs,
                   currentProgram, localVars, completed, uses>>

\* glGetProgramiv(shader_program, GL_LINK_STATUS, &success); if(!success)
ProgramCheck ==
    /\ phase = "build"
    /\ bpc = "linkcheck"
    /\ IF programObjs[CurProg].status # "ok"
       THEN /\ FailBuild([tag  |-> Build.progTag,
                          text |-> GetInfoLog(programObjs[CurProg].infoLog,
                                              InfoSize)])
            /\ UNCHANGED <<bpc, si>>
       ELSE /\ UNCHANGED <<phase, callStack, exitVars>>
            /\ bpc' = IF Build.deletes THEN "delete" ELSE "return"
            /\ si' = 1
    /\ UNCHANGED <<example, answers, demoVars, fbVars, context, bi, ip, frames, driverVars, localVars,
                   completed, uses>>

\* StageDelete on a driver that drops the executable of the program the
\* stage is attached to
StageDelete_UnlinksProgram ==
    /\ phase = "build"
    /\ bpc = "delete"
    /\ shaderObjs' = [shaderObjs EXCEPT ![CurStage].deleteFlag = TRUE]
    /\ programObjs' = [programObjs EXCEPT ![CurProg].status = "none"]
    /\ IF si < NumStages
       THEN bpc' = bpc /\ si' = si + 1
       ELSE bpc' = "return" /\ si' = si
    /\ UNCHANGED <<example, answers, demoVars, fbVars, context, phase, callStack, bi, ip, frames,
                   nextName, currentProgram, localVars,
                   completed, exitVars, uses>>

\* StageDelete releasing the first stage only
StageDelete_FirstOnly ==
    /\ phase = "build"
    /\ bpc = "delete"
    /\ shaderObjs' = [shaderObjs EXCEPT ![CurStage].deleteFlag = TRUE]
    /\ bpc' = "return"
    /\ si' = si
    /\ UNCHANGED <<example, answers, demoVars, fbVars, context, phase, callStack, bi, ip, frames,
                   nextName, programObjs, currentProgram, localVars,
                   completed, exitVars, uses>>

\* glDeleteShader(shader): a shader attached to a program is only flagged
\* for deletion, the program is left as it is
StageDelete ==
    /\ phase = "build"
    /\ bpc = "delete"
    /\ shaderObjs' = [shaderObjs EXCEPT ![CurStage].deleteFlag = TRUE]
    /\ IF si < NumStages
       THEN bpc' = bpc /\ si' = si + 1
       ELSE bpc' = "return" /\ si' = si
    /\ UNCHANGED <<example, answers, demoVars, fbVars, context, phase, callStack, bi, ip, frames,
                   nextName, programObjs, currentProgram, localVars,
                   completed, exitVars, uses>>

\* BuildReturn of a build that leaves its program bound by glUseProgram
BuildReturn_LeavesProgramBound ==
    /\ phase = "build"
    /\ bpc = "return"
    /\ IF Build.viaFunction
       THEN /\ callStack' = SubSeq(callStack, 1, Len(callStack) - 1)
            /\ mainVar' = [mainVar EXCEPT ![bi] = progVar[bi]]
       ELSE UNCHANGED <<callStack, mainVar>>
    /\ completed' = completed + 1
    /\ si' = 1
    /\ IF bi < NumBuilds
       THEN bi' = bi + 1 /\ bpc' = "enter" /\ phase' = phase /\ ip' = ip
       ELSE bi' = bi /\ bpc' = "done" /\ phase' = "setup" /\ ip' = 1
    /\ currentProgram' = progVar[bi]
    /\ UNCHANGED <<example, answers, demoVars, fbVars, context, frames, nextName, shaderObjs,
                   programObjs, stageVar, progVar, exitVars, uses>>

\* return shader_program; (or the end of the build written in main)
BuildReturn ==
    /\ phase = "build"
    /\ bpc = "return"
    /\ IF Build.viaFunction
       THEN /\ callStack' = SubSeq(callStack, 1, Len(callStack) - 1)
            /\ mainVar' = [mainVar EXCEPT ![bi] = progVar[bi]]
       ELSE UNCHANGED <<callStack, mainVar>>
    /\ completed' = completed + 1
    /\ si' = 1
    /\ IF bi < NumBuilds
       THEN bi' = bi + 1 /\ bpc' = "enter" /\ phase' = phase /\ ip' = ip
       ELSE bi' = bi /\ bpc' = "done" /\ phase' = "setup" /\ ip' = 1
    /\ UNCHANGED <<example, answers, demoVars, fbVars, context, frames, driverVars, stageVar, progVar,
                   exitVars, uses>>

(***************************************************************************)
(* The GL calls of main after the builds.                                  *)
(***************************************************************************)
\* the program variable main uses for the program of build b
ProgOf(b) == IF Ex.builds[b].viaFunction THEN mainVar[b] ELSE progVar[b]

CurScript ==
    CASE phase = "setup"    -> Ex.setup
      [] phase = "frame"    -> Ex.frame
      [] phase = "teardown" -> Ex.teardown
      [] OTHER              -> << >>

AtOp(o) ==
    /\ phase \in {"setup", "frame", "teardown"}
    /\ ip <= Len(CurScript)
    /\ CurScript[ip].op = o

CurOp == CurScript[ip]

Used(c, h) == uses \cup {[call |-> c, prog |-> h]}

\* glGetAttribLocation / glGetUniformLocation(program, name)
QueryLocation ==
    /\ AtOp("getloc")
    /\ uses' = Used("getloc", ProgOf(CurOp.prog))
    /\ ip' = ip + 1
    /\ UNCHANGED <<example, answers, demoVars, fbVars, context, phase, callStack, bi, bpc, si, frames,
                   driverVars, localVars, completed, exitVars>>

\* glUseProgram(program) and glUseProgram(0)
UseProgram ==
    /\ AtOp("use")
    /\ IF CurOp.prog = 0
       THEN currentProgram' = 0 /\ uses' = uses
       ELSE /\ currentProgram' = ProgOf(CurOp.prog)
            /\ uses' = Used("use", ProgOf(CurOp.prog))
    /\ ip' = ip + 1
    /\ UNCHANGED <<example, answers, demoVars, fbVars, context, phase, callStack, bi, bpc, si, frames,
                   nextName, shaderObjs, programObjs, localVars, completed,
                   exitVars>>

\* glUniform*(location, ...): sets a uniform of the current program
SetUniform ==
    /\ AtOp("uniform")
    /\ uses' = Used("uniform", currentProgram)
    /\ ip' = ip + 1
    /\ UNCHANGED <<example, answers, demoVars, fbVars, context, phase, callStack, bi, bpc, si, frames,
                   driverVars, localVars, completed, exitVars>>

\* the call with the framebuffers it reads and draws to
Call(c) == [call |-> c, read |-> readFramebuffer, draw |-> drawFramebuffer]

\* glDrawArrays(...)
Draw ==
    /\ AtOp("draw")
    /\ uses' = Used("draw", currentProgram)
    /\ frameCalls' = Append(frameCalls, Call("draw"))
    /\ ip' = ip + 1
    /\ UNCHANGED <<example, answers, demoVars, context, phase, callStack,
                   bi, bpc, si, frames, driverVars, localVars, completed,
                   exitVars, readFramebuffer, drawFramebuffer, fboStatus>>

\* glBindFramebuffer(GL_FRAMEBUFFER, f) binding the draw target only
BindFramebuffer_DrawOnly ==
    /\ AtOp("bindfb")
    /\ drawFramebuffer' = CurOp.fb
    /\ ip' = ip + 1
    /\ UNCHANGED <<example, answers, demoVars, context, phase, callStack,
                   bi, bpc, si, frames, driverVars, localVars, completed,
                   exitVars, uses, readFramebuffer, fboStatus, frameCalls>>

\* glBindFramebuffer(GL_FRAMEBUFFER, f): binds f to the read and to the
\* draw target
BindFramebuffer ==
    /\ AtOp("bindfb")
    /\ readFramebuffer' = CurOp.fb
    /\ drawFramebuffer' = CurOp.fb
    /\ ip' = ip + 1
    /\ UNCHANGED <<example, answers, demoVars, context, phase, callStack,
                   bi, bpc, si, frames, driverVars, localVars, completed,
                   exitVars, uses, fboStatus, frameCalls>>

\* glBindFramebuffer(GL_DRAW_FRAMEBUFFER, f)
BindDrawFramebuffer ==
    /\ AtOp("binddraw")
    /\ drawFramebuffer' = CurOp.fb
    /\ ip' = ip + 1
    /\ UNCHANGED <<example, answers, demoVars, context, phase, callStack,
                   bi, bpc, si, frames, driverVars, localVars, completed,
                   exitVars, uses, readFramebuffer, fboStatus, frameCalls>>

\* glBlitFramebuffer(...): copies from the read to the draw framebuffer
BlitFramebuffer ==
    /\ AtOp("blit")
    /\ frameCalls' = Append(frameCalls, Call("blit"))
    /\ ip' = ip + 1
    /\ UNCHANGED <<example, answers, demoVars, context, phase, callStack,
                   bi, bpc, si, frames, driverVars, localVars, completed,
                   exitVars, uses, readFramebuffer, drawFramebuffer,
                   fboStatus>>

\* glDispatchCompute(...)
Dispatch ==
    /\ AtOp("dispatch")
    /\ uses' = Used("dispatch", currentProgram)
    /\ ip' = ip + 1
    /\ UNCHANGED <<example, answers, demoVars, fbVars, context, phase, callStack, bi, bpc, si, frames,
                   driverVars, localVars, completed, exitVars>>

\* glfwSwapBuffers(window)
SwapBuffers ==
    /\ AtOp("swap")
    /\ frameCalls' = Append(frameCalls, Call("swap"))
    /\ ip' = ip + 1
    /\ UNCHANGED <<example, answers, demoVars, context, phase, callStack,
                   bi, bpc, si, frames, driverVars, localVars, completed,
                   exitVars, uses, readFramebuffer, drawFramebuffer,
                   fboStatus>>

\* glDeleteProgram(program)
DeleteProgram ==
    /\ AtOp("delprog")
    /\ programObjs' = [programObjs EXCEPT
                          ![ProgOf(CurOp.prog)].deleteFlag = TRUE]
    /\ ip' = ip + 1
    /\ UNCHANGED <<example, answers, demoVars, fbVars, context, phase, callStack, bi, bpc, si, frames,
                   nextName, shaderObjs, currentProgram, localVars,
                   completed, exitVars, uses>>

\* the check going on after a status other than GL_FRAMEBUFFER_COMPLETE
CheckFramebuffer_GoesOn ==
    /\ AtOp("fbocheck")
    /\ fboStatus' \in {"complete", "incomplete"}
    /\ ip' = ip + 1
    /\ UNCHANGED <<example, answers, demoVars, context, phase, callStack,
                   bi, bpc, si, frames, driverVars, localVars, completed,
                   exitVars, uses, readFramebuffer, drawFramebuffer,
                   frameCalls>>

\* if (glCheckFramebufferStatus(...) != GL_FRAMEBUFFER_COMPLETE) return -1
CheckFramebuffer ==
    /\ AtOp("fbocheck")
    /\ \/ /\ fboStatus' = "complete"
          /\ ip' = ip + 1
          /\ UNCHANGED <<phase, callStack, exitVars>>
       \/ /\ fboStatus' = "incomplete"
          /\ ReturnFromMain(-1, [tag |-> "ERROR::FRAMEBUFFER",
                                 text |-> << >>])
          /\ ip' = ip
    /\ UNCHANGED <<example, answers, demoVars, context, bi, bpc, si, frames,
                   driverVars, localVars, completed, uses, readFramebuffer,
                   drawFramebuffer, frameCalls>>

AtEnd(ph) == phase = ph /\ ip > Len(CurScript)

\* the calls before the render loop are done
SetupDone ==
    /\ AtEnd("setup")
    /\ phase' = IF Ex.loops THEN "loop" ELSE "teardown"
    /\ ip' = 1
    /\ UNCHANGED <<example, answers, demoVars, fbVars, context, callStack, bi, bpc, si, frames,
                   driverVars, localVars, completed, exitVars, uses>>

\* while (!glfwWindowShouldClose(window)) { glfwPollEvents(); ...
LoopCheck ==
    /\ phase = "loop"
    /\ \/ /\ frames < MaxFrames
          /\ phase' = "frame"
          /\ frameCalls' = << >>
       \/ /\ phase' = "teardown"
          /\ frameCalls' = frameCalls
    /\ ip' = 1
    /\ UNCHANGED <<example, answers, demoVars, context, callStack, bi, bpc,
                   si, frames, driverVars, localVars, completed, exitVars,
                   uses, readFramebuffer, drawFramebuffer, fboStatus>>

\* the end of the loop body
FrameDone ==
    /\ AtEnd("frame")
    /\ phase' = "loop"
    /\ frames' = frames + 1
    /\ ip' = 1
    /\ UNCHANGED <<example, answers, demoVars, fbVars, context, callStack, bi, bpc, si, driverVars,
                   localVars, completed, exitVars, uses>>

\* glfwDestroyWindow / glfwTerminate / eglTerminate; return 0
ExitMain ==
    /\ AtEnd("teardown")
    /\ ReturnFromMain(0, NoDiag)
    /\ context' = "destroyed"
    /\ UNCHANGED <<example, answers, demoVars, fbVars, bi, bpc, si, ip, frames, driverVars,
                   localVars, completed, uses>>

Next ==
    \/ ContextSetup
    \/ MakeContextCurrent
    \/ BuildEnter
    \/ StageCreate
    \/ StageCompile
    \/ StageCheck
    \/ ProgramCreate
    \/ ProgramAttach
    \/ ProgramLink
    \/ ProgramCheck
    \/ StageDelete
    \/ BuildReturn
    \/ QueryLocation
    \/ UseProgram
    \/ SetUniform
    \/ Draw
    \/ BindFramebuffer
    \/ BindDrawFramebuffer
    \/ BlitFramebuffer
    \/ Dispatch
    \/ SwapBuffers
    \/ DeleteProgram
    \/ CheckFramebuffer
    \/ SetupDone
    \/ LoopCheck
    \/ FrameDone
    \/ ExitMain

Spec == Init /\ [][Next]_vars

\* the process is a single thread that runs on while it has a next step:
\* every driver call returns
FairSpec == Spec /\ WF_vars(Next)


(***************************************************************************)
(* Derived notions the properties are stated in.                           *)
(***************************************************************************)
Builds == 1..NumBuilds

\* the shader objects created by build b
StagesOf(b) == {h \in DOMAIN shaderObjs : shaderObjs[h].src[1] = b}

\* the process has ended in the compile check or the link check of build bi
CompileFailed == phase = "exited" /\ bpc = "check"
LinkFailed == phase = "exited" /\ bpc = "linkcheck"
BuildFailed == CompileFailed \/ LinkFailed

ShaderTags == {ShaderTag(k) : k \in {"Vertex", "Fragment", "Compute"}}

\* the driver accepts every source of build b and links them
Valid(b) ==
    /\ \A i \in DOMAIN answers[b].compile : answers[b].compile[i]
    /\ answers[b].link

(***************************************************************************)
(* C1: a stage is created only after every earlier stage of its build has  *)
(* compiled successfully, and a stage whose compile status is failure is   *)
(* the last object of its build: no later stage and no program object is   *)
(* created, and once the status has been checked the process has ended     *)
(* with the compile error of exactly that stage.                           *)
(***************************************************************************)
C1_CompileShortCircuit ==
    \A h \in DOMAIN shaderObjs :
        LET b == shaderObjs[h].src[1]
            i == shaderObjs[h].src[2]
        IN  /\ \A g \in StagesOf(b) :
                   shaderObjs[g].src[2] < i =>
                       g < h /\ shaderObjs[g].status = "ok"
            /\ shaderObjs[h].status = "fail" =>
                   /\ \A g \in StagesOf(b) : shaderObjs[g].src[2] <= i
                   /\ progVar[b] = 0
                   /\ DOMAIN programObjs = {progVar[c] : c \in 1..(b - 1)}
                   /\ b = bi /\ i = si /\ bpc = "check"
                   /\ phase \in {"build", "exited"}
                   /\ phase = "exited" =>
                          /\ exitCode = BuildFailStatus
                          /\ diag.tag = ShaderTag(shaderObjs[h].kind)

\* a vertex stage failed although the fragment source is valid, and the
\* process has ended
C1_Witness ==
    /\ CompileFailed
    /\ si = 1
    /\ Build.stages = <<"Vertex", "Fragment">>
    /\ answers[bi].compile[2]
    /\ shaderObjs[CurStage].status = "fail"


(***************************************************************************)
(* C2, as claimed: at every failing end of a build (a later stage fails to *)
(* compile after an earlier one compiled, or the link fails) every         *)
(* compiled stage created by that build has been released.                 *)
(***************************************************************************)
C2_ReleasedOnFailure ==
    BuildFailed =>
        \A h \in StagesOf(bi) :
            shaderObjs[h].status = "ok" => shaderObjs[h].deleteFlag

(***************************************************************************)
(* C2, amended: stages are released only after a successful link.  A stage *)
(* is flagged for deletion only when the program of its build has linked,  *)
(* and at every failing end of a build no stage created by that build has  *)
(* been released: the process ends with them still allocated.              *)
(***************************************************************************)
C2_ReleaseOnlyAfterLink ==
    /\ \A h \in DOMAIN shaderObjs :
           shaderObjs[h].deleteFlag =>
               LET b == shaderObjs[h].src[1]
               IN  /\ progVar[b] # 0
                   /\ programObjs[progVar[b]].status = "ok"
    /\ BuildFailed =>
           \A h \in StagesOf(bi) : ~shaderObjs[h].deleteFlag

\* the link of two compiled stages failed and the process has ended
C2_Witness ==
    /\ LinkFailed
    /\ Cardinality(StagesOf(bi)) = 2
    /\ \A h \in StagesOf(bi) :
           shaderObjs[h].status = "ok" /\ ~shaderObjs[h].deleteFlag

(***************************************************************************)
(* C3, as claimed: in every build, once all stages compiled and the link   *)
(* succeeded, every stage created by the build is released before the      *)
(* code after the build runs, hence before the first use of the program.   *)
(***************************************************************************)
C3_StagesReleasedAfterLink ==
    \A b \in Builds :
        completed >= b =>
            /\ programObjs[progVar[b]].status = "ok"
            /\ \A h \in StagesOf(b) : shaderObjs[h].deleteFlag

(***************************************************************************)
(* C4, as claimed: every build failure returns control to the caller of    *)
(* the build: the frame that ran the build has returned, and the process   *)
(* was not ended from inside it.                                           *)
(***************************************************************************)
C4_SurfacedToCaller ==
    BuildFailed =>
        /\ exitBy = "return"
        /\ \A i \in 1..Len(callStack) : callStack[i] # "createShaderProgram"

(***************************************************************************)
(* C4, amended: every build failure ends the process with status -3 after  *)
(* the diagnostic is printed.  A build written in main returns -3 from     *)
(* main; createShaderProgram calls exit(-3) itself, so its frame never     *)
(* returns and main receives no value from it.  createShaderProgram        *)
(* returns to main only with a linked program.                             *)
(***************************************************************************)
C4_FailureEndsProcess ==
    /\ BuildFailed =>
           /\ exitCode = BuildFailStatus
           /\ diag.tag # "none"
           /\ IF Build.viaFunction
              THEN /\ exitBy = "exit"
                   /\ callStack = <<"main", "createShaderProgram">>
                   /\ mainVar[bi] = 0
              ELSE /\ exitBy = "return"
                   /\ callStack = << >>
    /\ \A b \in Builds :
           mainVar[b] # 0 => programObjs[mainVar[b]].status = "ok"

\* createShaderProgram ended the process on a failed link
C4_Witness ==
    /\ LinkFailed
    /\ Build.viaFunction
    /\ exitBy = "exit"

(***************************************************************************)
(* C5: a program object exists only when every stage of its build has      *)
(* been created and has compiled successfully, and the link is requested   *)
(* only with every one of those stages attached to that program.           *)
(***************************************************************************)
C5_TwoPhase ==
    \A b \in Builds :
        progVar[b] # 0 =>
            /\ Len(stageVar[b]) = Len(Ex.builds[b].stages)
            /\ \A i \in 1..Len(stageVar[b]) :
                   shaderObjs[stageVar[b][i]].status = "ok"
            /\ programObjs[progVar[b]].links > 0 =>
                   programObjs[progVar[b]].attached = stageVar[b]
            /\ bpc \in {"link", "linkcheck"} /\ b = bi =>
                   programObjs[progVar[b]].attached = stageVar[b]

\* a link has been requested of a program with two stages attached
C5_Witness ==
    \E p \in DOMAIN programObjs :
        programObjs[p].links = 1 /\ Len(programObjs[p].attached) = 2

(***************************************************************************)
(* C6: when the stages compiled and the driver reports a failed link, the  *)
(* build does not complete and delivers no program: the program is never   *)
(* used, and once the status has been checked the process has ended with   *)
(* the program error message carrying the driver's link log, not with a    *)
(* shader error and not with success.                                      *)
(***************************************************************************)
C6_LinkFailureSurfaced ==
    \A b \in Builds :
        (progVar[b] # 0 /\ programObjs[progVar[b]].status = "fail") =>
            /\ \A h \in StagesOf(b) : shaderObjs[h].status = "ok"
            /\ completed < b
            /\ mainVar[b] = 0
            /\ \A u \in uses : u.prog # progVar[b]
            /\ b = bi /\ bpc = "linkcheck"
            /\ phase \in {"build", "exited"}
            /\ phase = "exited" =>
                   /\ diag.tag = Ex.builds[b].progTag
                   /\ diag.tag \notin ShaderTags
                   /\ diag.text = GetInfoLog(
                          programObjs[progVar[b]].infoLog, InfoSize)
                   /\ exitCode = BuildFailStatus

\* a failed link with a non-empty log has ended the process
C6_Witness ==
    /\ LinkFailed
    /\ programObjs[CurProg].status = "fail"
    /\ diag.text # << >>


(***************************************************************************)
(* The state of build attempt b, read off the position of the code.        *)
(***************************************************************************)
AttemptState(b) ==
    IF b < bi THEN "Linked"
    ELSE IF b > bi THEN "NotStarted"
    ELSE CASE bpc = "enter"                -> "NotStarted"
           [] bpc = "create" /\ si = 1     -> "Created"
           [] bpc = "create" /\ si > 1     -> "Compiling"
           [] bpc = "compile"              -> "Compiling"
           [] bpc = "check"                ->
                  IF phase = "exited" THEN "CompileFailed" ELSE "Compiling"
           [] bpc = "progcreate"           -> "Compiled"
           [] bpc \in {"attach", "link"}   -> "Linking"
           [] bpc = "linkcheck"            ->
                  IF phase = "exited" THEN "LinkFailed" ELSE "Linking"
           [] bpc \in {"delete", "return", "done"} -> "Linked"

AttemptSteps ==
    {<<"NotStarted", "Created">>,
     <<"Created", "Compiling">>,
     <<"Compiling", "CompileFailed">>,
     <<"Compiling", "Compiled">>,
     <<"Compiled", "Linking">>,
     <<"Linking", "LinkFailed">>,
     <<"Linking", "Linked">>}

\* the builds of a single compute stage
ComputeBuilds ==
    {<<"gles_compute_pure", 1>>, <<"gles_compute", 2>>,
     <<"gles_compute_simple", 2>>}

\* the context was created: the process did not end before the first build
ContextOk == ~(phase = "exited" /\ bi = 1 /\ bpc = "enter")

(***************************************************************************)
(* C7: every step changes the state of a build attempt only along          *)
(* Created -> Compiling -> CompileFailed | Compiled -> Linking ->          *)
(* LinkFailed | Linked, so the three final states are never left; no       *)
(* shader object is compiled twice and no program object is linked twice.  *)
(***************************************************************************)
C7_AttemptStateMachine ==
    [][/\ \A b \in Builds :
              \/ AttemptState(b)' = AttemptState(b)
              \/ <<AttemptState(b), AttemptState(b)'>> \in AttemptSteps
       /\ \A h \in DOMAIN shaderObjs' : shaderObjs'[h].compiles <= 1
       /\ \A p \in DOMAIN programObjs' : programObjs'[p].links <= 1]_vars

\* the first build linked, the second ended in a failed link
C7_Witness ==
    /\ phase = "exited"
    /\ NumBuilds = 2
    /\ AttemptState(1) = "Linked"
    /\ AttemptState(2) = "LinkFailed"

(***************************************************************************)
(* C8: every program handle passed to a location query or glUseProgram,    *)
(* and every program current at a uniform, draw or dispatch call, is a     *)
(* program whose link status is success; when a build has failed no draw   *)
(* or dispatch has been issued, and none is issued afterwards.             *)
(***************************************************************************)
C8_NoPlaceholderProgram ==
    /\ [](/\ \A u \in uses :
                /\ u.prog \in DOMAIN programObjs
                /\ programObjs[u.prog].status = "ok"
          /\ currentProgram # 0 =>
                /\ currentProgram \in DOMAIN programObjs
                /\ programObjs[currentProgram].status = "ok"
          /\ BuildFailed =>
                \A u \in uses : u.call \notin {"draw", "dispatch"})
    /\ [][BuildFailed => uses' = uses]_vars

\* a frame with a dispatch and a draw has been rendered
C8_Witness ==
    /\ frames >= 1
    /\ \E u \in uses : u.call = "draw"
    /\ \E u \in uses : u.call = "dispatch"

(***************************************************************************)
(* C9: a build of a single compute stage whose source the driver accepts   *)
(* creates one shader object, of kind Compute, and once started it runs    *)
(* to its end: the program has exactly that stage attached, is linked,     *)
(* and is the program the following code uses.                             *)
(***************************************************************************)
C9_ComputeOnly ==
    \A b \in Builds :
        (<<example, b>> \in ComputeBuilds /\ Valid(b)) =>
            /\ \A h \in StagesOf(b) : shaderObjs[h].kind = "Compute"
            /\ Cardinality(StagesOf(b)) <= 1
            /\ (phase = "exited" /\ bi = b /\ bpc # "enter") =>
                   completed >= b
            /\ completed >= b =>
                   /\ Cardinality(StagesOf(b)) = 1
                   /\ Len(stageVar[b]) = 1
                   /\ programObjs[progVar[b]].attached = stageVar[b]
                   /\ programObjs[progVar[b]].status = "ok"
                   /\ ProgOf(b) = progVar[b]

\* the pure compute example has built and dispatched its program
C9_Witness ==
    /\ example = "gles_compute_pure"
    /\ completed = 1
    /\ \E u \in uses : u.call = "dispatch" /\ u.prog = progVar[1]

FailedLog ==
    IF bpc = "check" THEN shaderObjs[CurStage].infoLog
                     ELSE programObjs[CurProg].infoLog

(***************************************************************************)
(* C11, as claimed: whenever a build has failed, the diagnostic reported    *)
(* is non-empty and is exactly the info log the driver holds for the       *)
(* failing object.                                                         *)
(***************************************************************************)
C11_DiagnosticNonEmpty ==
    BuildFailed =>
        /\ diag.text # << >>
        /\ diag.text = FailedLog

(***************************************************************************)
(* C11, amended: whenever a build has failed, the diagnostic reported is    *)
(* the beginning of the driver's info log of the failing object, cut to    *)
(* what fits the 512-byte buffer with its terminator: it is the whole log  *)
(* when the log is shorter than the buffer, and it is empty exactly when   *)
(* the driver's log is empty.                                              *)
(***************************************************************************)
C11_DiagnosticIsDriverPrefix ==
    BuildFailed =>
        /\ Len(diag.text) = Min(Len(FailedLog), InfoSize - 1)
        /\ \A i \in 1..Len(diag.text) : diag.text[i] = FailedLog[i]
        /\ Len(FailedLog) < InfoSize => diag.text = FailedLog
        /\ diag.text = << >> <=> FailedLog = << >>

\* a compile failure whose log did not fit the buffer has been reported
C11_Witness ==
    /\ CompileFailed
    /\ Len(FailedLog) > InfoSize
    /\ Len(diag.text) = InfoSize - 1


\* the messages printed for a failed link
ProgramTags == {"Program error", "Compute Program error"}

(***************************************************************************)
(* C12: the message of a compile failure names the kind of the one stage   *)
(* whose compile status is failure: the messages of the three kinds differ *)
(* from one another, every other stage of the build compiled, and the      *)
(* message of a link failure differs from every compile message.           *)
(***************************************************************************)
C12_FailureNamesStage ==
    /\ \A k \in {"Vertex", "Fragment", "Compute"} :
           \A l \in {"Vertex", "Fragment", "Compute"} :
               ShaderTag(k) = ShaderTag(l) => k = l
    /\ ShaderTags \cap ProgramTags = {}
    /\ CompileFailed =>
           /\ shaderObjs[CurStage].status = "fail"
           /\ shaderObjs[CurStage].kind = Build.stages[si]
           /\ diag.tag = ShaderTag(shaderObjs[CurStage].kind)
           /\ \A h \in StagesOf(bi) \ {CurStage} :
                  shaderObjs[h].status = "ok"
    /\ LinkFailed =>
           /\ diag.tag \in ProgramTags
           /\ \A h \in StagesOf(bi) : shaderObjs[h].status = "ok"

\* the compute stage of the second build failed to compile
C12_Witness ==
    /\ CompileFailed
    /\ bi = 2
    /\ shaderObjs[CurStage].kind = "Compute"
    /\ diag.tag = "Compute shader error"

BuilderInvoked ==
    \/ bi > 1
    \/ bpc # "enter"
    \/ DOMAIN shaderObjs # {}
    \/ DOMAIN programObjs # {}

ReleasingExamples == {"gles_compute_pure", "gles_offscreen"}

Position ==
    CASE bpc = "create"     -> 3 * (si - 1)
      [] bpc = "compile"    -> 3 * (si - 1) + 1
      [] bpc = "check"      -> 3 * (si - 1) + 2
      [] bpc = "progcreate" -> 3 * NumStages
      [] bpc = "attach"     -> 3 * NumStages + si
      [] bpc = "link"       -> 4 * NumStages + 1
      [] bpc = "linkcheck"  -> 4 * NumStages + 2
      [] bpc = "delete"     -> 4 * NumStages + 2 + si
      [] bpc = "return"     -> 5 * NumStages + 3
      [] OTHER              -> 0

Running == {"Created", "Compiling", "Compiled", "Linking"}
Terminal == {"CompileFailed", "LinkFailed", "Linked"}

(***************************************************************************)
(* C17: a build that has started reaches CompileFailed, LinkFailed or      *)
(* Linked; every step taken while it runs is a step of that build, which   *)
(* moves it forward, and a build has at most 5 steps per stage plus 3.     *)
(***************************************************************************)
C17_BuildTerminates ==
    /\ \A b \in {1, 2} :
           (AttemptState(b) \in Running) ~> (AttemptState(b) \in Terminal)
    /\ [][AttemptState(bi) \in Running =>
             /\ AttemptState(bi)' \in Running \cup Terminal
             /\ AttemptState(bi)' \in Running =>
                    /\ bi' = bi
                    /\ Position' > Position
                    /\ Position' <= 5 * NumStages + 3]_vars

\* the second build has run to its end after the first
C17_Witness ==
    /\ NumBuilds = 2
    /\ bi = 2
    /\ bpc = "done"
    /\ AttemptState(1) = "Linked"
    /\ AttemptState(2) = "Linked"

(***************************************************************************)
(* C18: when the second build of a process performs its first operation,   *)
(* the first build has returned: its program is linked, every stage it     *)
(* created has been released, and all its objects are older than every     *)
(* object of the second build; the objects of a build change only while    *)
(* that build is the one in progress.                                      *)
(***************************************************************************)
C18_BuildsDoNotOverlap ==
    /\ []((bi = 2 /\ (bpc # "enter" \/ StagesOf(2) # {})) =>
              /\ completed >= 1
              /\ programObjs[progVar[1]].status = "ok"
              /\ \A h \in StagesOf(1) : shaderObjs[h].deleteFlag
              /\ \A h \in StagesOf(1) : \A g \in StagesOf(2) : h < g
              /\ \A g \in StagesOf(2) : progVar[1] < g)
    /\ [][\A h \in DOMAIN shaderObjs :
              shaderObjs'[h] # shaderObjs[h] =>
                  shaderObjs[h].src[1] = bi /\ phase = "build"]_vars

\* the second build of the depth cube example compiles its first stage
C18_Witness ==
    /\ example = "depth_cube"
    /\ bi = 2
    /\ bpc = "compile"
    /\ \A h \in StagesOf(1) : shaderObjs[h].deleteFlag


(***************************************************************************)
(* The pure compute example after its build: upload, dispatch, read-back.  *)
(* The ten work groups of one invocation each run concurrently; the store  *)
(* of an ivec2 is taken as two stores of an int.  The driver completes the *)
(* dispatch before a later mapping of the buffer returns.                  *)
(***************************************************************************)
pipelineVars ==
    <<example, answers, context, phase, callStack, bi, bpc, si, ip, frames,
      nextName, shaderObjs, programObjs, currentProgram, stageVar, progVar,
      mainVar, completed, diag, exitCode, exitBy, uses, fbVars>>

bounceVars == <<verticesVbo, bframes>>
pureVars == <<cpc, calcBuffer, mapping, invocation, printed, bufferCalls>>

\* ElementOffset with the elements packed without padding
ElementOffset_Packed(x) == 2 * x

\* the int at which data.values[x] starts in the buffer
ElementOffset(x) == ArrayStride * x

PureInit ==
    /\ PipelineInit
    /\ example = "gles_compute_pure"
    /\ Valid(1)
    /\ cpc = "start"
    /\ calcBuffer \in {[i \in Items |-> f] : f \in {0, -1}}
    /\ mapping = "none"
    /\ invocation = [g \in Groups |-> "none"]
    /\ printed = [i \in Items |-> 0]
    /\ bufferCalls = << >>
    /\ verticesVbo = InitialVertices
    /\ bframes = 0
    /\ WireIdle
    /\ DumpIdle

\* glMapBufferRange(GL_ARRAY_BUFFER, 0, calcBufferSize, GL_MAP_WRITE_BIT)
MapForWrite ==
    /\ cpc = "start"
    /\ mapping' = "write"
    /\ bufferCalls' = Append(bufferCalls, "glMapBufferRange(WRITE)")
    /\ cpc' = "fill"
    /\ UNCHANGED <<pipelineVars, dumpVars, bounceVars, wireVars, calcBuffer,
                   invocation, printed>>

\* for (idx = 0; idx < itemCount; idx++) inputPtr[idx] = idx + 1;
FillInput ==
    /\ cpc = "fill"
    /\ mapping = "write"
    /\ calcBuffer' = [idx \in Items |-> idx + 1]
    /\ cpc' = "unmap"
    /\ UNCHANGED <<pipelineVars, dumpVars, bounceVars, wireVars, mapping, invocation,
                   printed, bufferCalls>>

\* the upload going on to the dispatch with the buffer left mapped
UnmapWritten_LeavesMapped ==
    /\ cpc = "unmap"
    /\ bufferCalls' = bufferCalls
    /\ cpc' = "dispatch"
    /\ UNCHANGED <<pipelineVars, dumpVars, bounceVars, wireVars, calcBuffer, mapping,
                   invocation, printed>>

\* glUnmapBuffer(GL_ARRAY_BUFFER) after the upload
UnmapWritten ==
    /\ cpc = "unmap"
    /\ mapping' = "none"
    /\ bufferCalls' = Append(bufferCalls, "glUnmapBuffer")
    /\ cpc' = "dispatch"
    /\ UNCHANGED <<pipelineVars, dumpVars, bounceVars, wireVars, calcBuffer,
                   invocation, printed>>

\* glDispatchCompute(10, 1, 1)
DispatchCompute ==
    /\ cpc = "dispatch"
    /\ invocation' = [g \in Groups |-> "ready"]
    /\ bufferCalls' = Append(bufferCalls, "glDispatchCompute")
    /\ cpc' = "readmap"
    /\ UNCHANGED <<pipelineVars, dumpVars, bounceVars, wireVars, calcBuffer, mapping,
                   printed>>

\* data.values[pos.x].x = 1000 + pos.x
StoreX ==
    \E g \in Groups :
        /\ invocation[g] = "ready"
        /\ calcBuffer' = [calcBuffer EXCEPT ![ElementOffset(g)] = 1000 + g]
        /\ invocation' = [invocation EXCEPT ![g] = "half"]
        /\ UNCHANGED <<pipelineVars, dumpVars, bounceVars, wireVars, cpc, mapping,
                       printed, bufferCalls>>

\* data.values[pos.x].y = 2000 + pos.x
StoreY ==
    \E g \in Groups :
        /\ invocation[g] = "half"
        /\ calcBuffer' = [calcBuffer EXCEPT
                              ![ElementOffset(g) + 1] = 2000 + g]
        /\ invocation' = [invocation EXCEPT ![g] = "done"]
        /\ UNCHANGED <<pipelineVars, dumpVars, bounceVars, wireVars, cpc, mapping,
                       printed, bufferCalls>>

\* glMapBufferRange(GL_ARRAY_BUFFER, 0, calcBufferSize, GL_MAP_READ_BIT)
MapForRead ==
    /\ cpc = "readmap"
    /\ \A g \in Groups : invocation[g] = "done"
    /\ mapping' = "read"
    /\ bufferCalls' = Append(bufferCalls, "glMapBufferRange(READ)")
    /\ cpc' = "print"
    /\ UNCHANGED <<pipelineVars, dumpVars, bounceVars, wireVars, calcBuffer,
                   invocation, printed>>

\* for (idx = 0; idx < itemCount; idx++) printf(..., idx + 1, readPtr[idx]);
PrintAll ==
    /\ cpc = "print"
    /\ mapping = "read"
    /\ printed' = [idx \in Items |-> calcBuffer[idx]]
    /\ cpc' = "unmapread"
    /\ UNCHANGED <<pipelineVars, dumpVars, bounceVars, wireVars, calcBuffer, mapping,
                   invocation, bufferCalls>>

\* glUnmapBuffer(GL_ARRAY_BUFFER) after the read-back
UnmapRead ==
    /\ cpc = "unmapread"
    /\ mapping' = "none"
    /\ bufferCalls' = Append(bufferCalls, "glUnmapBuffer")
    /\ cpc' = "done"
    /\ UNCHANGED <<pipelineVars, dumpVars, bounceVars, wireVars, calcBuffer,
                   invocation, printed>>

\* glDeleteProgram(compute_program)
DeleteComputeProgram ==
    /\ cpc = "done"
    /\ bufferCalls' = Append(bufferCalls, "glDeleteProgram")
    /\ cpc' = "released"
    /\ UNCHANGED <<pipelineVars, dumpVars, bounceVars, wireVars, calcBuffer, mapping,
                   invocation, printed>>

PureNext ==
    \/ MapForWrite
    \/ FillInput
    \/ UnmapWritten
    \/ DispatchCompute
    \/ StoreX
    \/ StoreY
    \/ MapForRead
    \/ PrintAll
    \/ UnmapRead
    \/ DeleteComputeProgram

PureSpec == PureInit /\ [][PureNext]_vars

Abs(n) == IF n < 0 THEN -n ELSE n

Clamp(v, lo, hi) == IF v < lo THEN lo ELSE IF v > hi THEN hi ELSE v

B2I(b) == IF b THEN 1 ELSE 0

\* vec2 direction = clamp(inVertices.data[0].zw, -1.0f, 1.0f)
DirectionOf(buf) ==
    [x |-> Clamp(buf[0].z, -1, 1), y |-> Clamp(buf[0].w, -1, 1)]

\* vec2 speed = clamp(inVertices.data[1].zw, 0.0001f, 0.3f); the lower
\* limit is less than one step
SpeedOf(buf) ==
    [x |-> IF buf[1].z > SpeedMax.x THEN SpeedMax.x ELSE buf[1].z,
     y |-> IF buf[1].w > SpeedMax.y THEN SpeedMax.y ELSE buf[1].w]

\* currPos.xy += speed * direction
MovedPos(buf, v) ==
    [a \in Axes |-> buf[v][a] + SpeedOf(buf)[a] * DirectionOf(buf)[a]]

\* greaterThan(abs(currPos.xy) - abs(direction), vec2(0.0f))
CollisionOf(buf, v) ==
    [a \in Axes |->
        Abs(MovedPos(buf, v)[a]) > Abs(DirectionOf(buf)[a]) * Boundary[a]]

AnyOf(c) == c.x \/ c.y

\* the loop over vIdx: if (any(collision)) { foundCollision = collision; }
RECURSIVE FoundCollision(_, _, _)
FoundCollision(buf, vIdx, found) ==
    IF vIdx = 3
    THEN found
    ELSE FoundCollision(buf, vIdx + 1,
                        IF AnyOf(CollisionOf(buf, vIdx))
                        THEN CollisionOf(buf, vIdx)
                        ELSE found)

HaveEdge(buf) == \E v \in Vertices : AnyOf(CollisionOf(buf, v))

\* if (haveEdge) { direction = unchangedDirection + invertDirection; }
NewDirection(buf) ==
    LET d == DirectionOf(buf)
        f == FoundCollision(buf, 0, [a \in Axes |-> FALSE])
    IN  IF HaveEdge(buf)
        THEN [a \in Axes |-> d[a] * B2I(~f[a]) + d[a] * (-1) * B2I(f[a])]
        ELSE d

\* outVertices.data[vIdx] = vec4(currPos, 0.0f, 0.0f)
StoreVertex(cur, vIdx, currPos) ==
    [cur EXCEPT ![vIdx] = [x |-> currPos.x, y |-> currPos.y,
                           z |-> 0, w |-> 0]]

\* the for loop over vIdx on the buffer that is bound to both blocks: an
\* iteration reads data[vIdx].xy through inVertices from what the earlier
\* iterations left, and writes data[vIdx] through outVertices; direction
\* and speed are the locals read before the loop
RECURSIVE LoopOver(_, _, _, _)
LoopOver(cur, vIdx, direction, speed) ==
    IF vIdx = 3
    THEN cur
    ELSE LET currPos == [a \in Axes |->
                            cur[vIdx][a] + speed[a] * direction[a]]
         IN  LoopOver(StoreVertex(cur, vIdx, currPos), vIdx + 1,
                      direction, speed)

\* main() reading direction and speed from the buffer after the loop
ComputeMain_ReadAfterLoop(buf) ==
    LET out == LoopOver(buf, 0, DirectionOf(buf), SpeedOf(buf))
    IN  [out EXCEPT ![0].z = DirectionOf(out).x,
                    ![0].w = DirectionOf(out).y,
                    ![1].z = SpeedOf(out).x,
                    ![1].w = SpeedOf(out).y]

\* void main() of compute_src: the contents of the buffer after the run;
\* outVertices.data[0].zw = direction; outVertices.data[1].zw = speed
ComputeMain(buf) ==
    LET direction == DirectionOf(buf)
        speed     == SpeedOf(buf)
        out       == LoopOver(buf, 0, direction, speed)
    IN  [out EXCEPT ![0].z = NewDirection(buf).x,
                    ![0].w = NewDirection(buf).y,
                    ![1].z = speed.x,
                    ![1].w = speed.y]

BounceInit ==
    /\ PipelineInit
    /\ example = "gles_compute"
    /\ Valid(1)
    /\ Valid(2)
    /\ DemoIdle

\* one iteration of the render loop: glDispatchCompute(1, 1, 1) on
\* vertices_vbo, then the draw
BounceFrame ==
    /\ bframes < MaxBounceFrames
    /\ verticesVbo' = ComputeMain(verticesVbo)
    /\ bframes' = bframes + 1
    /\ UNCHANGED <<pipelineVars, dumpVars, pureVars, wireVars>>

BounceNext == BounceFrame

BounceSpec == BounceInit /\ [][BounceNext]_vars

(***************************************************************************)
(* C20, as claimed: in every frame, on each axis on which one of the three *)
(* updated positions is beyond the boundary the stored direction is the    *)
(* negation of the direction the frame started with, and on every other    *)
(* axis the direction is unchanged.                                        *)
(***************************************************************************)
C20_DirectionReversedPerAxis ==
    [][bframes' = bframes + 1 =>
          \A a \in Axes :
              LET before == IF a = "x" THEN verticesVbo[0].z
                                       ELSE verticesVbo[0].w
                  after  == IF a = "x" THEN verticesVbo'[0].z
                                       ELSE verticesVbo'[0].w
                  beyond == \E v \in Vertices :
                                Abs(verticesVbo'[v][a]) > Boundary[a]
              IN  after = IF beyond THEN -before ELSE before]_vars

(***************************************************************************)
(* The wireframe example after its build: the render loop.  GLFW delivers  *)
(* the key events of the window to key_callback while main is inside       *)
(* glfwPollEvents.                                                         *)
(***************************************************************************)
Keys == {"GLFW_KEY_W", "GLFW_KEY_OTHER"}
KeyActions == {"GLFW_PRESS", "GLFW_RELEASE", "GLFW_REPEAT"}

\* the toggle without the wrap to 0
NextMode_NoWrap(mode) == mode + 1

\* (wireframeToggle + 1) % 3
NextMode(mode) == (mode + 1) % 3

\* the condition satisfied by every action of the W key
IsToggleEvent_AnyAction(key, action) == key = "GLFW_KEY_W"

\* key == GLFW_KEY_W && action == GLFW_PRESS
IsToggleEvent(key, action) == key = "GLFW_KEY_W" /\ action = "GLFW_PRESS"

\* switch (wireframeToggle) of fragment_src: the alpha of the fill colour;
\* no case assigns alpha for another value
FragmentAlpha(mode) ==
    CASE mode \in {0, 1} -> 1
      [] mode = 2 -> 0

WireInit ==
    /\ PipelineInit
    /\ example = "gles_wireframe"
    /\ Valid(1)
    /\ cpc = "start"
    /\ calcBuffer = [i \in Items |-> 0]
    /\ mapping = "none"
    /\ invocation = [g \in Groups |-> "none"]
    /\ printed = [i \in Items |-> 0]
    /\ bufferCalls = << >>
    /\ verticesVbo = InitialVertices
    /\ bframes = 0
    /\ WireIdle
    /\ DumpIdle

\* static void key_callback(window, key, scancode, action, mods)
key_callback(key, action) ==
    /\ wireframeToggle' = IF IsToggleEvent(key, action)
                          THEN NextMode(wireframeToggle)
                          ELSE wireframeToggle
    /\ events' = Append(events, [key |-> key, action |-> action])

\* glfwPollEvents() handles one pending key event
KeyEvent ==
    /\ wpc = "poll"
    /\ Len(events) < MaxKeyEvents
    /\ \E key \in Keys, action \in KeyActions : key_callback(key, action)
    /\ UNCHANGED <<pipelineVars, dumpVars, pureVars, bounceVars, wpc, uniformValue,
                   wframes>>

\* glfwPollEvents() returns; glClearColor, glClear
PollReturn ==
    /\ wpc = "poll"
    /\ wframes < MaxWireFrames
    /\ wpc' = "upload"
    /\ UNCHANGED <<pipelineVars, dumpVars, pureVars, bounceVars, wireframeToggle,
                   uniformValue, events, wframes>>

\* glUseProgram(shader_program);
\* glUniform1i(uniformWireframeToggleLocation, wireframeToggle);
\* glDrawArrays(GL_TRIANGLES, 0, 6)
UploadAndDraw ==
    /\ wpc = "upload"
    /\ uniformValue' = wireframeToggle
    /\ FragmentAlpha(uniformValue') \in {0, 1}
    /\ wpc' = "swap"
    /\ UNCHANGED <<pipelineVars, dumpVars, pureVars, bounceVars, wireframeToggle,
                   events, wframes>>

\* glfwSwapBuffers(window), and the loop condition
SwapWireframe ==
    /\ wpc = "swap"
    /\ wpc' = "poll"
    /\ wframes' = wframes + 1
    /\ UNCHANGED <<pipelineVars, dumpVars, pureVars, bounceVars, wireframeToggle,
                   uniformValue, events>>

WireNext ==
    \/ KeyEvent
    \/ PollReturn
    \/ UploadAndDraw
    \/ SwapWireframe

WireSpec == WireInit /\ [][WireNext]_vars

\* the W key presses among the key events delivered so far
Presses == {i \in 1..Len(events) : events[i].key = "GLFW_KEY_W"
                                   /\ events[i].action = "GLFW_PRESS"}

\* the step delivers a key event
Delivered == Len(events') = Len(events) + 1

(***************************************************************************)
(* C21: wireframeToggle is always 0, 1 or 2; a press of the W key moves it *)
(* from 0 to 1, from 1 to 2 and from 2 to 0; so after n presses it is      *)
(* n mod 3, and three presses bring it back to where it was.               *)
(***************************************************************************)
C21_ModeCycle ==
    /\ [](wireframeToggle \in {0, 1, 2})
    /\ [][(Delivered /\ Len(events') \in Presses') =>
              \/ wireframeToggle = 0 /\ wireframeToggle' = 1
              \/ wireframeToggle = 1 /\ wireframeToggle' = 2
              \/ wireframeToggle = 2 /\ wireframeToggle' = 0]_vars
    /\ [](wireframeToggle = Cardinality(Presses) % 3)

\* the W key was pressed three times and the mode is the initial one again
C21_Witness ==
    /\ Cardinality(Presses) = 3
    /\ wireframeToggle = 0
    /\ events[Len(events)].key = "GLFW_KEY_W"
    /\ events[Len(events)].action = "GLFW_PRESS"

(***************************************************************************)
(* C24: a key event other than a press of the W key leaves wireframeToggle *)
(* unchanged, and so does every step of the frame outside the event poll;  *)
(* the value uploaded to the uniform in a frame is the value               *)
(* wireframeToggle has after the event poll of that frame.                 *)
(***************************************************************************)
C24_ModeFrame ==
    /\ [][(Delivered /\ Len(events') \notin Presses') =>
              wireframeToggle' = wireframeToggle]_vars
    /\ [][(wpc # "poll" \/ wpc' # "poll") =>
              wireframeToggle' = wireframeToggle]_vars
    /\ [][(wpc = "upload" /\ wpc' = "swap") =>
              uniformValue' = wireframeToggle]_vars
    /\ [][uniformValue' # uniformValue => wpc = "upload"]_vars
    /\ [](wpc = "swap" => uniformValue = wireframeToggle)

\* a press of W, then a release of W and a press of another key were
\* delivered, and the frame uploaded mode 1
C24_Witness ==
    /\ Len(events) = 3
    /\ Cardinality(Presses) = 1
    /\ \E i \in 1..3 : events[i] = [key |-> "GLFW_KEY_W",
                                    action |-> "GLFW_RELEASE"]
    /\ \E i \in 1..3 : events[i] = [key |-> "GLFW_KEY_OTHER",
                                    action |-> "GLFW_PRESS"]
    /\ wpc = "swap"
    /\ uniformValue = 1

(***************************************************************************)
(* C22: at the end of every frame of the bouncing triangle the stored      *)
(* direction (z/w of vertex 0) is +1 or -1 on each axis, the stored speed  *)
(* (z/w of vertex 1) is the initial one, and z/w of vertex 2 are 0,        *)
(* although the loop of the shader stores 0 into z/w of every vertex of    *)
(* the buffer it also reads.                                               *)
(***************************************************************************)
C22_ControlDataPreserved ==
    /\ verticesVbo[0].z \in {1, -1}
    /\ verticesVbo[0].w \in {1, -1}
    /\ verticesVbo[1].z = InitialVertices[1].z
    /\ verticesVbo[1].w = InitialVertices[1].w
    /\ verticesVbo[2].z = 0
    /\ verticesVbo[2].w = 0

\* frames have run, the triangle has moved and its direction has been
\* reversed on the y axis
C22_Witness ==
    /\ bframes > 0
    /\ verticesVbo[0].x # InitialVertices[0].x
    /\ verticesVbo[0].z = 1
    /\ verticesVbo[0].w = -1

(***************************************************************************)
(* C27, as claimed: after any number of frames every vertex is at most one *)
(* step beyond the boundary: |x| <= 1 + 0.005 and |y| <= 1 + 0.01.         *)
(***************************************************************************)
C27_InsideOvershootBand ==
    \A v \in Vertices :
        /\ Abs(verticesVbo[v].x) <= Boundary.x + 1
        /\ Abs(verticesVbo[v].y) <= Boundary.y + 1

(***************************************************************************)
(* The examples that render into a framebuffer object and copy it to the   *)
(* window.                                                                 *)
(***************************************************************************)
FboExamples == {"gles_triangle_fbo_blit", "depth_cube"}

\* the positions of the calls c among the calls of the frame
CallsOf(c) == {i \in 1..Len(frameCalls) : frameCalls[i].call = c}

(***************************************************************************)
(* C23: in the FBO-blit and the depth-cube example every glBlitFramebuffer *)
(* finds the offscreen FBO bound for reading and framebuffer 0 bound for   *)
(* drawing; the draws of the frame before it went to the offscreen FBO;    *)
(* the swap of a frame comes after its blit; and every frame, the first    *)
(* and the later ones, has one blit and one swap.                          *)
(***************************************************************************)
C23_BlitBindings ==
    example \in FboExamples =>
        /\ \A i \in CallsOf("blit") :
              /\ frameCalls[i].read = OffscreenFbo
              /\ frameCalls[i].draw = 0
              /\ \E j \in CallsOf("draw") : j < i
              /\ \A j \in CallsOf("draw") :
                     j < i => frameCalls[j].draw = OffscreenFbo
        /\ \A i \in CallsOf("swap") :
              /\ \E j \in CallsOf("blit") : j < i
              /\ i = Len(frameCalls)
        /\ (phase = "loop" /\ frames > 0) =>
              /\ Cardinality(CallsOf("blit")) = 1
              /\ Cardinality(CallsOf("swap")) = 1

\* the second frame of the depth-cube example has drawn, copied and
\* swapped
C23_Witness ==
    /\ example = "depth_cube"
    /\ frames = 1
    /\ phase = "frame"
    /\ CallsOf("blit") # {}
    /\ CallsOf("swap") # {}

(***************************************************************************)
(* C25: in the FBO-blit and the depth-cube example the render loop is      *)
(* entered only after glCheckFramebufferStatus reported the framebuffer    *)
(* complete; after any other status the process has exited with status -1  *)
(* and has issued no draw, blit or swap call.                              *)
(***************************************************************************)
C25_CompletenessGate ==
    example \in FboExamples =>
        /\ (phase \in {"loop", "frame"} \/ frames > 0
            \/ frameCalls # << >>) => fboStatus = "complete"
        /\ fboStatus = "incomplete" =>
              /\ phase = "exited"
              /\ exitCode = -1
              /\ frames = 0
              /\ frameCalls = << >>
              /\ \A u \in uses : u.call # "draw"

\* the framebuffer of the FBO-blit example was reported incomplete
C25_Witness ==
    /\ example = "gles_triangle_fbo_blit"
    /\ fboStatus = "incomplete"
    /\ phase = "exited"
    /\ diag.tag = "ERROR::FRAMEBUFFER"

\* the buffer calls of the pure compute example in the order of main
Protocol ==
    <<"glMapBufferRange(WRITE)", "glUnmapBuffer", "glDispatchCompute",
      "glMapBufferRange(READ)", "glUnmapBuffer", "glDeleteProgram">>

\* the step issues the call c
Issues(c) ==
    /\ Len(bufferCalls') = Len(bufferCalls) + 1
    /\ bufferCalls'[Len(bufferCalls')] = c

(***************************************************************************)
(* C26: in the pure compute example the buffer is mapped only while it is  *)
(* not mapped, it is not mapped when the dispatch is issued nor when the   *)
(* program is released, and the calls come in the order write-mapping,     *)
(* unmap, dispatch, read-mapping, unmap: the read-mapping follows the      *)
(* dispatch.                                                               *)
(***************************************************************************)
C26_MappingProtocol ==
    /\ [][(Issues("glMapBufferRange(WRITE)")
           \/ Issues("glMapBufferRange(READ)")
           \/ Issues("glDispatchCompute")
           \/ Issues("glDeleteProgram")) => mapping = "none"]_vars
    /\ [][Issues("glUnmapBuffer") =>
              mapping # "none" /\ mapping' = "none"]_vars
    /\ [][mapping' # mapping =>
              \/ Issues("glMapBufferRange(WRITE)") /\ mapping' = "write"
              \/ Issues("glMapBufferRange(READ)") /\ mapping' = "read"
              \/ Issues("glUnmapBuffer")]_vars
    /\ [](\E n \in 0..Len(Protocol) : bufferCalls = SubSeq(Protocol, 1, n))
    /\ [](printed # [i \in Items |-> 0] =>
              \E i, j \in 1..Len(bufferCalls) :
                  /\ i < j
                  /\ bufferCalls[i] = "glDispatchCompute"
                  /\ bufferCalls[j] = "glMapBufferRange(READ)")

\* the whole sequence was issued and the program is released
C26_Witness ==
    /\ cpc = "released"
    /\ bufferCalls = Protocol
    /\ mapping = "none"
    /\ printed[0] = 1000

(***************************************************************************)
(* The offscreen example after its draw: the read-back of the image and    *)
(* the pixel data of the ppm file.  The file's header is left out.         *)
(***************************************************************************)
\* the RGBA pixels the read-back is made of
Palette == {<<1, 2, 3, 4>>, <<5, 6, 7, 8>>, <<250, 251, 252, 253>>}

\* GL_RGBA, GL_UNSIGNED_BYTE: the bytes of a pixel
PixelSize == 4

\* the bytes of the pixel data of a ppm pixel
PpmPixelSize == 3

PixelCount == renderImageWidth * renderImageHeight

\* the byte row points at, with row advancing by the bytes written
RowOffset_Packed(r) == PpmPixelSize * r

\* the byte the uint32_t pointer row points at
RowOffset(r) == PixelSize * r

\* what glReadPixels(0, 0, width, height, GL_RGBA, GL_UNSIGNED_BYTE, ...)
\* can store: rows of 4-byte pixels without padding (GL_PACK_ALIGNMENT 4)
ReadBacks ==
    {[k \in 0..(PixelSize * PixelCount - 1) |->
         image[k \div PixelSize][(k % PixelSize) + 1]] :
     image \in [0..(PixelCount - 1) -> Palette]}

DumpInit ==
    /\ PipelineInit
    /\ example = "gles_offscreen"
    /\ Valid(1)
    /\ cpc = "start"
    /\ calcBuffer = [i \in Items |-> 0]
    /\ mapping = "none"
    /\ invocation = [g \in Groups |-> "none"]
    /\ printed = [i \in Items |-> 0]
    /\ bufferCalls = << >>
    /\ verticesVbo = InitialVertices
    /\ bframes = 0
    /\ WireIdle
    /\ renderImageWidth \in 1..MaxWidth
    /\ renderImageHeight \in 1..MaxHeight
    /\ pixels = << >>
    /\ file = << >>
    /\ row = 0
    /\ px = 0
    /\ py = 0
    /\ dpc = "start"

\* pixels.resize(...); glReadPixels(...); the file is opened;
\* uint32_t *row = (uint32_t*)pixels.data()
ReadPixels ==
    /\ dpc = "start"
    /\ pixels' \in ReadBacks
    /\ row' = 0
    /\ px' = 0
    /\ py' = 0
    /\ dpc' = "write"
    /\ UNCHANGED <<pipelineVars, pureVars, bounceVars, wireVars,
                   renderImageWidth, renderImageHeight, file>>

\* file.write((const char*)row, 3); row++; x++
WritePixel ==
    /\ dpc = "write"
    /\ py < renderImageHeight
    /\ px < renderImageWidth
    /\ file' = file \o [c \in 1..PpmPixelSize |->
                           pixels[RowOffset(row) + c - 1]]
    /\ row' = row + 1
    /\ px' = px + 1
    /\ UNCHANGED <<pipelineVars, pureVars, bounceVars, wireVars,
                   renderImageWidth, renderImageHeight, pixels, py, dpc>>

\* the inner loop is over: y++, and x = 0 again
NextRow ==
    /\ dpc = "write"
    /\ py < renderImageHeight
    /\ px = renderImageWidth
    /\ py' = py + 1
    /\ px' = 0
    /\ UNCHANGED <<pipelineVars, pureVars, bounceVars, wireVars,
                   renderImageWidth, renderImageHeight, pixels, file, row,
                   dpc>>

\* the outer loop is over: file.close()
CloseFile ==
    /\ dpc = "write"
    /\ py = renderImageHeight
    /\ dpc' = "closed"
    /\ UNCHANGED <<pipelineVars, pureVars, bounceVars, wireVars,
                   renderImageWidth, renderImageHeight, pixels, file, row,
                   px, py>>

DumpNext ==
    \/ ReadPixels
    \/ WritePixel
    \/ NextRow
    \/ CloseFile

DumpSpec == DumpInit /\ [][DumpNext]_vars

(***************************************************************************)
(* C28: when the file is closed its pixel data has width * height * 3      *)
(* bytes, and for every pixel i in the order of the read-back the bytes    *)
(* 3i, 3i+1, 3i+2 of it are the bytes 4i, 4i+1, 4i+2 of the read-back: the *)
(* fourth byte of every pixel is left out, no pixel is skipped or written  *)
(* twice.                                                                  *)
(***************************************************************************)
C28_RgbPayload ==
    dpc = "closed" =>
        /\ Len(file) = renderImageWidth * renderImageHeight * 3
        /\ \A i \in 0..(renderImageWidth * renderImageHeight - 1) :
               /\ file[3 * i + 1] = pixels[4 * i]
               /\ file[3 * i + 2] = pixels[4 * i + 1]
               /\ file[3 * i + 3] = pixels[4 * i + 2]

\* an image of 2 x 2 pixels that are not all the same was written
C28_Witness ==
    /\ dpc = "closed"
    /\ renderImageWidth = 2
    /\ renderImageHeight = 2
    /\ pixels[0] # pixels[4]
    /\ pixels[4] # pixels[12]
    /\ Len(file) = 12

====
